---- MODULE Spec2Model ----
(***************************************************************************)
(* A model of the text frontend of the Blizzard 2021 system demo,          *)
(* PreprocessingForTTS/ProcessText.py (class TextFrontend).                *)
(*                                                                         *)
(* Strings are sequences of one-character strings.  A character outside    *)
(* ASCII is written by its code point ("U+0254").  Python's 0-based        *)
(* indices are 1-based here: index k of the code is k + 1 of the model.    *)
(***************************************************************************)
EXTENDS Integers, Sequences, FiniteSets, TLC

VARIABLES
    pc,             \* the position of the running call
    durs,           \* phones_and_dur_to_tensor: durs, in duration units
    melLen,         \* phones_and_dur_to_tensor: len(melspec)
    frames,         \* phones_and_dur_to_tensor: frames
    rounded,        \* history: frames as line 295 computed it, before the corrections
    diff,           \* phones_and_dur_to_tensor: diff
    sorted_frames,  \* phones_and_dur_to_tensor: sorted_frames
    i,              \* the loop counter of the running loop
    cs_dicts,       \* string_to_tensor: cs_dicts, the words and tags of the identifier
    chunks,         \* string_to_tensor: chunks
    current_chunk,  \* string_to_tensor: current_chunk
    current_lang,   \* string_to_tensor: current_lang
    cleaned_chunks, \* postprocess_codeswitch: cleaned_chunks
    ptr,            \* postprocess_codeswitch: ptr
    use_codeswitching,   \* self.use_codeswitching
    use_prosody,         \* self.use_prosody
    use_word_boundaries, \* self.use_word_boundaries
    use_explicit_eos,    \* self.use_explicit_eos
    allow_unknown,       \* self.allow_unknown
    g2p_out,        \* string_to_tensor: what phonemizer.phonemize returns, per chunk
    phones_chunks,  \* string_to_tensor: phones_chunks
    aligned,        \* phones_to_tensor, phones_and_dur_to_tensor: the argument phones
    phones,         \* phones
    phones_vector   \* phones_vector

alignVars == <<durs, melLen, frames, rounded, diff, sorted_frames>>
segVars == <<cs_dicts, chunks, current_chunk, current_lang, cleaned_chunks, ptr>>
config == <<use_codeswitching, use_prosody, use_word_boundaries, use_explicit_eos, allow_unknown>>
convVars == <<config, g2p_out, phones_chunks, aligned, phones, phones_vector>>
vars == <<pc, i, alignVars, segVars, convVars>>

\* the variables of a call that is not running
AlignIdle ==
    /\ durs = <<>>
    /\ melLen = 0
    /\ frames = <<>>
    /\ rounded = <<>>
    /\ diff = 0
    /\ sorted_frames = <<>>

ConvIdle ==
    /\ use_codeswitching = FALSE
    /\ use_prosody = FALSE
    /\ use_word_boundaries = FALSE
    /\ use_explicit_eos = FALSE
    /\ allow_unknown = FALSE
    /\ g2p_out = <<>>
    /\ phones_chunks = <<>>
    /\ aligned = <<>>
    /\ phones = <<>>
    /\ phones_vector = <<>>

SegIdle ==
    /\ cs_dicts = <<>>
    /\ chunks = <<>>
    /\ current_chunk = <<>>
    /\ current_lang = ""
    /\ cleaned_chunks = <<>>
    /\ ptr = 0

(***************************************************************************)
(* Bounds of the model.                                                    *)
(***************************************************************************)
MaxLen == 4         \* the longest duration list
MaxDur == 3         \* the longest duration, in units
MaxFrames == 10     \* the largest len(melspec)

(***************************************************************************)
(* Helpers on sequences.                                                   *)
(***************************************************************************)
RECURSIVE Sum(_)
Sum(s) == IF s = <<>> THEN 0 ELSE Head(s) + Sum(Tail(s))

Abs(n) == IF n < 0 THEN -n ELSE n

Reverse(s) == [k \in 1..Len(s) |-> s[Len(s) + 1 - k]]

SeqsUpTo(S, n) == UNION {[1..m -> S] : m \in 1..n}

(***************************************************************************)
(* phones_and_dur_to_tensor, lines 294-311: the reconciliation of the      *)
(* durations with the number of spectrogram frames.                        *)
(*                                                                         *)
(* A duration is a whole number of units of any size, so dur * x is the    *)
(* rational dur * len(melspec) / sum(durs).  round() is Python's round of  *)
(* a float: away from a tie it is the nearest integer.  At an exact tie    *)
(* the float product lies on either side of the tie or on it (the          *)
(* durations are parsed decimals: 0.0001 * (10 / 0.0004) is above 2.5),    *)
(* and on it round() takes the even neighbour: both neighbours are         *)
(* outcomes.                                                               *)
(***************************************************************************)
\* round(num / den) for num >= 0, den > 0
Round(num, den) ==
    LET q == num \div den
        r == num % den
    IN  IF 2 * r < den THEN {q}
        ELSE IF 2 * r > den THEN {q + 1}
        ELSE {q, q + 1}

\* round(num / den) when the float product is the exact quotient (durations
\* and scale that are binary fractions): a tie goes to the even neighbour
RoundHalfEven(num, den) ==
    LET q == num \div den
        r == num % den
    IN  IF 2 * r < den THEN q
        ELSE IF 2 * r > den THEN q + 1
        ELSE IF q % 2 = 0 THEN q ELSE q + 1

\* the sequences that take element k from cs[k]
RECURSIVE Products(_)
Products(cs) ==
    IF cs = <<>> THEN {<<>>}
    ELSE {<<h>> \o t : h \in Head(cs), t \in Products(Tail(cs))}

\* frames = [round(dur * x) for dur in durs], x = len(melspec) / sum(durs)
RoundFrames(ds, n) == Products([k \in 1..Len(ds) |-> Round(ds[k] * n, Sum(ds))])

\* numpy.argsort(frames): a permutation of the indices that puts the values in
\* ascending order.  The default kind is quicksort, which is not stable, so the
\* order of the indices of equal values depends on the numpy build: every
\* ascending permutation is an outcome.  ArgSortsOf(fr, S) orders the indices
\* in S: a smallest value first, in each way there is.
RECURSIVE ArgSortsOf(_, _)
ArgSortsOf(fr, S) ==
    IF S = {} THEN {<<>>}
    ELSE LET least == {k \in S : \A j \in S : fr[k] <= fr[j]}
         IN  UNION {{<<k>> \o rest : rest \in ArgSortsOf(fr, S \ {k})} : k \in least}

ArgSorts(fr) == ArgSortsOf(fr, 1..Len(fr))

\* the argsort of a stable sort (introsort's insertion sort on a short array):
\* equal values keep their original order
StableArgSort(fr) ==
    LET Before(k) == {j \in 1..Len(fr) : fr[j] < fr[k] \/ (fr[j] = fr[k] /\ j < k)}
    IN  [pos \in 1..Len(fr) |->
            CHOOSE k \in 1..Len(fr) : Cardinality(Before(k)) = pos - 1]

\* numpy.argsort(frames)[::-1]
WrongOrderRankings(fr) == ArgSorts(fr)
Rankings(fr) == {Reverse(p) : p \in ArgSorts(fr)}

\* idx = sorted_frames[i]
FirstRanked(sf, k) == sf[1]
FromSmallest(sf, k) == sf[Len(sf) - k]
RankedIndex(sf, k) == sf[k + 1]

\* frames[idx] += 1 when diff > 0, frames[idx] -= 1 when diff < 0
AlwaysAdd(fr, idx, d) == [fr EXCEPT ![idx] = @ + 1]
Adjust(fr, idx, d) == [fr EXCEPT ![idx] = IF d > 0 THEN @ + 1 ELSE @ - 1]

\* assert sum(frames) == len(melspec)
RejectsZeroTarget(fr, n) == Sum(fr) = n /\ n > 0
AssertHolds(fr, n) == Sum(fr) = n

InitAlign ==
    /\ pc = "align_round"
    /\ durs \in SeqsUpTo(1..MaxDur, MaxLen)
    /\ melLen \in 0..MaxFrames
    /\ frames = <<>>
    /\ rounded = <<>>
    /\ diff = 0
    /\ sorted_frames = <<>>
    /\ i = 0
    /\ SegIdle
    /\ ConvIdle

\* lines 294-296
AlignRound ==
    /\ pc = "align_round"
    /\ frames' \in RoundFrames(durs, melLen)
    /\ rounded' = frames'
    /\ diff' = melLen - Sum(frames')
    /\ pc' = IF diff' = 0 THEN "align_assert" ELSE "align_sort"
    /\ UNCHANGED <<durs, melLen, sorted_frames, i, segVars, convVars>>

\* lines 300 and 305
AlignSort ==
    /\ pc = "align_sort"
    /\ sorted_frames' \in Rankings(frames)
    /\ i' = 0
    /\ pc' = "align_loop"
    /\ UNCHANGED <<durs, melLen, frames, rounded, diff, segVars, convVars>>

\* lines 301-303 and 306-308: one iteration, or the end of the loop
AlignLoop ==
    /\ pc = "align_loop"
    /\ IF i >= Abs(diff)
       THEN /\ pc' = "align_assert"
            /\ UNCHANGED <<frames, i>>
       ELSE IF i + 1 > Len(sorted_frames)
       THEN /\ pc' = "IndexError"
            /\ UNCHANGED <<frames, i>>
       ELSE /\ frames' = Adjust(frames, RankedIndex(sorted_frames, i), diff)
            /\ i' = i + 1
            /\ pc' = "align_loop"
    /\ UNCHANGED <<durs, melLen, rounded, diff, sorted_frames, segVars, convVars>>

\* lines 309-311
AlignReturn ==
    /\ pc = "align_assert"
    /\ pc' = IF AssertHolds(frames, melLen) THEN "align_done" ELSE "AssertionError"
    /\ UNCHANGED <<i, alignVars, segVars, convVars>>

NextAlign == AlignRound \/ AlignSort \/ AlignLoop \/ AlignReturn

SpecAlign == InitAlign /\ [][NextAlign]_vars

(***************************************************************************)
(* Properties of the reconciliation.                                       *)
(***************************************************************************)
\* the frame counts that the corrections have changed
Corrected(k) == frames[k] # rounded[k]
AlignFailed == pc \in {"IndexError", "AssertionError"}

\* C1: for a non-empty list of positive durations and a target N > 0 the frame
\* counts sum to exactly N when the final assertion is reached, so neither the
\* assertion nor the correction loop fails.
C1_SumIsTarget ==
    melLen > 0 =>
        /\ ~AlignFailed
        /\ pc \in {"align_assert", "align_done"} => Sum(frames) = melLen

\* C1 witness: a call with N > 0 that had to correct frames has returned.
C1_Witness ==
    /\ pc = "align_done"
    /\ melLen > 0
    /\ diff < 0
    /\ i = Abs(diff)

\* C2 as stated: with a target of zero frames the alignment returns no frame
\* counts.
C2_ZeroTargetFails == melLen = 0 => pc # "align_done"

\* C2 as amended: with a target of zero frames and a non-empty duration list
\* the alignment does not fail; it returns a zero frame count for every symbol.
C2_ZeroTargetReturnsZeros ==
    melLen = 0 =>
        /\ ~AlignFailed
        /\ pc = "align_done" => frames = [k \in 1..Len(durs) |-> 0]

\* C2 witness: a call with a target of zero frames has returned.
C2_Witness == pc = "align_done" /\ melLen = 0 /\ Len(frames) = Len(durs)

\* the call ran with exact float products and a stable argsort
ExactAndStable ==
    /\ rounded = [k \in 1..Len(durs) |-> RoundHalfEven(durs[k] * melLen, Sum(durs))]
    /\ sorted_frames = Reverse(StableArgSort(rounded))

\* C3 as stated: among equal rounded counts the earliest index is corrected
\* first, and three equal durations with target 10 give [4,3,3]; stated of the
\* calls with exact float products and a stable argsort.
C3_TiesEarliestFirst ==
    (pc = "align_done" /\ ExactAndStable) =>
        /\ \A a, b \in 1..Len(durs) :
            (a < b /\ rounded[a] = rounded[b] /\ Corrected(b)) => Corrected(a)
        /\ (durs = <<1, 1, 1>> /\ melLen = 10) => frames = <<4, 3, 3>>

\* C3 as amended: the corrected indices are the top-ranked by descending
\* rounded count (no corrected index has a smaller rounded count than an
\* uncorrected one); the order among equal counts is that of the reversed
\* argsort, and when the argsort is stable the latest index among equal
\* counts is corrected first; three equal durations with target 10 round to
\* [3,3,3], one of them gets the extra frame, and it is the last ([3,3,4])
\* when the argsort is stable.
C3_DescendingCountLatestFirst ==
    pc = "align_done" =>
        /\ \A a, b \in 1..Len(durs) :
            (Corrected(a) /\ ~Corrected(b)) => rounded[a] >= rounded[b]
        /\ sorted_frames = Reverse(StableArgSort(rounded)) =>
            \A a, b \in 1..Len(durs) :
                (a < b /\ rounded[a] = rounded[b] /\ Corrected(a)) => Corrected(b)
        /\ (durs = <<1, 1, 1>> /\ melLen = 10) =>
            /\ rounded = <<3, 3, 3>>
            /\ frames \in {<<4, 3, 3>>, <<3, 4, 3>>, <<3, 3, 4>>}
            /\ sorted_frames = Reverse(StableArgSort(rounded)) => frames = <<3, 3, 4>>

\* C3 witness: three equal durations with target 10, corrected after a stable
\* argsort.
C3_Witness ==
    /\ pc = "align_done"
    /\ durs = <<1, 1, 1>>
    /\ melLen = 10
    /\ sorted_frames = Reverse(StableArgSort(rounded))
    /\ frames = <<3, 3, 4>>

\* C10: the number of corrections never exceeds the number of symbols, the
\* loop never reads past the end of the ranking, and no frame count ends more
\* than one frame away from its rounded value.
C10_AtMostOneFrameEach ==
    /\ pc # "IndexError"
    /\ Abs(diff) <= Len(durs)
    /\ frames # <<>> =>
        /\ Len(frames) = Len(durs)
        /\ \A k \in 1..Len(durs) : Abs(frames[k] - rounded[k]) <= 1
        /\ pc \in {"align_assert", "align_done"} =>
            Cardinality({k \in 1..Len(durs) : Corrected(k)}) = Abs(diff)

\* C10 witness: a call that needed two corrections has returned.
C10_Witness == pc = "align_done" /\ Abs(diff) >= 2 /\ i = Abs(diff)

\* C12: for a non-empty list of positive durations and a target N >= 0 no
\* frame count is ever negative, in the result or on the way to it; and when
\* the rounded sum is above the target, every index that loses a frame had a
\* rounded count of at least 1.
C12_FramesNeverNegative ==
    frames # <<>> =>
        /\ \A k \in 1..Len(frames) : frames[k] >= 0
        /\ diff < 0 =>
            \A k \in 1..Len(frames) : Corrected(k) => rounded[k] >= 1

\* C12 witness: durations [1,2,2,2] with target 2 round to [0,1,1,1], one
\* frame too many; the call has returned, the position with a rounded count
\* of zero kept it, and a position that lost a frame is left with none.
C12_Witness ==
    /\ pc = "align_done"
    /\ durs = <<1, 2, 2, 2>>
    /\ melLen = 2
    /\ rounded = <<0, 1, 1, 1>>
    /\ diff < 0
    /\ i = Abs(diff)
    /\ \E k \in 1..Len(frames) : rounded[k] = 0
    /\ \E k \in 1..Len(frames) : Corrected(k) /\ frames[k] = 0

(***************************************************************************)
(* string_to_tensor, lines 143-177, and postprocess_codeswitch, lines      *)
(* 99-129: the segmentation of a code-switched utterance into chunks of    *)
(* one language.                                                           *)
(***************************************************************************)
MaxWords == 3       \* the longest word sequence of the language identifier

\* str.startswith, str.endswith, `in`
StartsWith(s, pre) == Len(s) >= Len(pre) /\ SubSeq(s, 1, Len(pre)) = pre
EndsWith(s, suf) ==
    Len(s) >= Len(suf) /\ SubSeq(s, Len(s) - Len(suf) + 1, Len(s)) = suf
Contains(s, sub) ==
    \E k \in 1..(Len(s) - Len(sub) + 1) : SubSeq(s, k, k + Len(sub) - 1) = sub

\* str.replace(old, new): the matches of old, left to right, without overlap
RECURSIVE Replace(_, _, _)
Replace(s, old, new) ==
    IF Len(s) < Len(old) THEN s
    ELSE IF SubSeq(s, 1, Len(old)) = old
    THEN new \o Replace(SubSeq(s, Len(old) + 1, Len(s)), old, new)
    ELSE <<Head(s)>> \o Replace(Tail(s), old, new)

\* str.count(c) of a character
RECURSIVE Count(_, _)
Count(s, c) ==
    IF s = <<>> THEN 0
    ELSE (IF Head(s) = c THEN 1 ELSE 0) + Count(Tail(s), c)

\* the words the identifier returns: a Spanish word, an English place name,
\* the apostrophe, the possessive s and a wordpiece
W_la == <<"l", "a">>
W_Bath == <<"B", "a", "t", "h">>
W_apostrophe == <<"'">>
W_s == <<"s">>
W_piece == <<"#", "#", "s">>
Words == {W_la, W_Bath, W_apostrophe, W_s, W_piece}

\* the tags of the identifier ('entity')
Tags == {"spa", "en", "ne", "other", "unk"}

\* self.important_en
important_en ==
    { <<"g", "y", "m">>, <<"r", "e", "d">>, <<"B", "y", "e">>, <<"b", "y", "e">>,
      <<"E", "x", "m", "o", "u", "t", "h">>, <<"D", "e", "r", "a", "i", "n">>,
      <<"s", "e", "t">>, <<"O", "x", "h", "e", "a", "d">>, <<"G", "u", "y">>,
      <<"V", "I", "P">>, <<"c", "u", "t", "r", "e">>,
      <<"c", "o", "n", "f", "o", "r", "t">>, <<"M", "i", "d", "g", "e">>,
      <<"y", "e", "n">>, <<"U", "S", "B">>,
      <<"a", "f", "t", "e", "r", "s", "u", "n">> }

\* self.en_cities: the lines of english.city.names.txt, here one of its names
en_cities == {W_Bath}

\* lines 150-160: the language of the grapheme-to-phoneme conversion of a word
G2PLang(word, cs_lang) ==
    IF cs_lang = "spa" \/ cs_lang = "other" THEN "es"
    ELSE IF cs_lang = "en" THEN "en-us"
    ELSE IF cs_lang = "ne"
    THEN (IF word \in en_cities THEN "en-us" ELSE "es")
    ELSE "es"

\* line 167: a wordpiece, an apostrophe fragment or the possessive s
IsFragment(word) ==
    \/ StartsWith(word, <<"#", "#">>)
    \/ StartsWith(word, <<"'">>)
    \/ word = <<"s">>

\* lines 167-168: wordpieces of one word all have the language of the chunk
OwnLang(word, g2p_lang, cur_lang) == g2p_lang
FragmentLang(word, g2p_lang, cur_lang) ==
    IF IsFragment(word) THEN cur_lang ELSE g2p_lang

\* lines 104-109: the text of a chunk with its pieces put together
CleanSeq(word, lang) ==
    LET s0 == Replace(word, <<" ", "#", "#">>, <<>>)
        s1 == IF lang = "es"
              THEN Replace(Replace(s0, <<" ", "d", " ", "'", " ">>, <<" ", "d", "'">>),
                           <<" ", "'", " ", "s">>, <<"'", "s">>)
              ELSE s0
    IN  IF lang = "en-us"
        THEN Replace(Replace(Replace(Replace(s1,
                 <<" ", "'", " ", "l", "l">>, <<"'", "l", "l">>),
                 <<" ", "'", " ", "s">>, <<"'", "s">>),
                 <<" ", "'", " ", "v", "e">>, <<"'", "v", "e">>),
                 <<" ", "'", " ", "d">>, <<"'", "d">>)
        ELSE s1

\* line 110: seq.count(" ") < 1
AtMostTwoWords(seq) == Count(seq, " ") < 2
IsShort(seq) == Count(seq, " ") < 1

\* lines 111-113: the sequence really is English
LooksEnglish(seq) ==
    \/ seq \in important_en
    \/ seq \in en_cities
    \/ Contains(seq, <<"k">>)
    \/ Contains(seq, <<"w">>)
    \/ Contains(seq, <<"s", "h">>)
    \/ (Len(seq) >= 2 /\ seq[1] \in {"S", "s"} /\ seq[2] \in {"t", "p", "k"})
    \/ EndsWith(seq, <<"t", "i", "o", "n">>)
    \/ EndsWith(seq, <<"t", "i", "o", "n", "s">>)
    \/ EndsWith(seq, <<"i", "n", "g">>)
    \/ EndsWith(seq, <<"i", "n", "g", "s">>)

\* lines 108-116: the language of a chunk after the check of short sequences
CleanLang(seq, lang) ==
    IF lang = "en-us" /\ IsShort(seq) /\ ~LooksEnglish(seq) THEN "es" ELSE lang

\* an empty slot of cleaned_chunks
None == [word |-> <<>>, lang |-> "None"]

\* line 122: cleaned_chunks[ptr]['word'] += " " + seq
Overwrite(cur, seq) == seq
JoinWithSpace(cur, seq) == cur \o <<" ">> \o seq

\* line 121: the language compared with the one of the slot at the cursor is
\* the language after the check of short sequences
InputLang(lang, chunk) == chunk.lang
ComparedLang(lang, chunk) == lang

InitSegment ==
    /\ pc = "seg_loop"
    /\ cs_dicts \in UNION {[1..m -> [word : Words, entity : Tags]] : m \in 0..MaxWords}
    /\ chunks = <<>>
    /\ current_chunk = <<>>
    /\ current_lang = ""
    /\ cleaned_chunks = <<>>
    /\ ptr = 0
    /\ i = 0
    /\ AlignIdle
    /\ ConvIdle

\* lines 146-175: one iteration of the loop over cs_dicts
SegWord ==
    /\ pc = "seg_loop"
    /\ i < Len(cs_dicts)
    /\ LET word == cs_dicts[i + 1].word
           lang0 == G2PLang(word, cs_dicts[i + 1].entity)
           g2p_lang == FragmentLang(word, lang0, current_lang)
       IN  IF i = 0
           THEN /\ current_lang' = lang0
                /\ current_chunk' = word
                /\ UNCHANGED chunks
           ELSE IF g2p_lang = current_lang
           THEN /\ current_chunk' = JoinWithSpace(current_chunk, word)
                /\ UNCHANGED <<chunks, current_lang>>
           ELSE /\ chunks' = Append(chunks, [word |-> current_chunk, lang |-> current_lang])
                /\ current_chunk' = word
                /\ current_lang' = g2p_lang
    /\ i' = i + 1
    /\ UNCHANGED <<pc, cs_dicts, cleaned_chunks, ptr, alignVars, convVars>>

\* line 176, and lines 100-101 of the call of line 177; current_chunk is
\* bound by the first iteration of the loop only
SegClose ==
    /\ pc = "seg_loop"
    /\ i = Len(cs_dicts)
    /\ IF Len(cs_dicts) = 0
       THEN /\ pc' = "UnboundLocalError"
            /\ UNCHANGED <<chunks, cleaned_chunks>>
       ELSE /\ chunks' = Append(chunks, [word |-> current_chunk, lang |-> current_lang])
            /\ cleaned_chunks' = [k \in 1..Len(chunks') |-> None]
            /\ pc' = "post_loop"
    /\ ptr' = 0
    /\ i' = 0
    /\ UNCHANGED <<cs_dicts, current_chunk, current_lang, alignVars, convVars>>

\* lines 102-127: one iteration of the loop over chunks
PostChunk ==
    /\ pc = "post_loop"
    /\ i < Len(chunks)
    /\ LET chunk == chunks[i + 1]
           seq == CleanSeq(chunk.word, chunk.lang)
           lang == CleanLang(seq, chunk.lang)
       IN  IF cleaned_chunks[ptr + 1] = None
           THEN /\ cleaned_chunks' = [cleaned_chunks EXCEPT ![ptr + 1] = [word |-> seq, lang |-> lang]]
                /\ UNCHANGED <<ptr, pc>>
           ELSE IF ComparedLang(lang, chunk) = cleaned_chunks[ptr + 1].lang
           THEN /\ cleaned_chunks' = [cleaned_chunks EXCEPT ![ptr + 1].word = JoinWithSpace(@, seq)]
                /\ UNCHANGED <<ptr, pc>>
           ELSE IF ptr + 2 > Len(cleaned_chunks)
           THEN /\ pc' = "IndexError"
                /\ ptr' = ptr + 1
                /\ UNCHANGED cleaned_chunks
           ELSE /\ ptr' = ptr + 1
                /\ cleaned_chunks' = [cleaned_chunks EXCEPT ![ptr + 2] = [word |-> seq, lang |-> lang]]
                /\ UNCHANGED pc
    /\ i' = i + 1
    /\ UNCHANGED <<cs_dicts, chunks, current_chunk, current_lang, alignVars, convVars>>

\* lines 128-129, and the assignment of line 177
PostReturn ==
    /\ pc = "post_loop"
    /\ i = Len(chunks)
    /\ chunks' = SelectSeq(cleaned_chunks, LAMBDA c : c # None)
    /\ pc' = "seg_done"
    /\ UNCHANGED <<i, cs_dicts, current_chunk, current_lang, cleaned_chunks, ptr, alignVars, convVars>>

NextSegment == SegWord \/ SegClose \/ PostChunk \/ PostReturn

SpecSegment == InitSegment /\ [][NextSegment]_vars

(***************************************************************************)
(* Properties of the segmentation.                                         *)
(***************************************************************************)
\* the texts of a sequence of words or chunks, joined by single spaces
RECURSIVE JoinText(_)
JoinText(ws) ==
    IF ws = <<>> THEN <<>>
    ELSE IF Len(ws) = 1 THEN ws[1].word
    ELSE ws[1].word \o <<" ">> \o JoinText(Tail(ws))

\* a text without its spaces and continuation markers
Letters(s) == SelectSeq(s, LAMBDA c : c \notin {" ", "#"})

\* the first word of a text
RECURSIVE FirstWord(_)
FirstWord(s) ==
    IF s = <<>> \/ Head(s) = " " THEN <<>> ELSE <<Head(s)>> \o FirstWord(Tail(s))

Chunk(text, lang) == [word |-> text, lang |-> lang]
Tagged(w, tag) == [word |-> w, entity |-> tag]

\* C4: the chunks partition the word sequence.  After the greedy run merge the
\* chunks' texts, joined in chunk order, are exactly the words in their order;
\* after postprocess_codeswitch, which takes out spaces and continuation
\* markers only, they still hold every letter of every word once and in order.
C4_ChunksPartitionWords ==
    /\ (pc = "post_loop" /\ i = 0) => JoinText(chunks) = JoinText(cs_dicts)
    /\ pc = "seg_done" =>
        /\ chunks # <<>>
        /\ Letters(JoinText(chunks)) = Letters(JoinText(cs_dicts))

\* C4 witness: three words that the merge and the re-merge bring into one
\* chunk.
C4_Witness ==
    /\ pc = "seg_done"
    /\ cs_dicts = <<Tagged(W_la, "spa"), Tagged(W_la, "en"), Tagged(W_la, "spa")>>
    /\ chunks = <<Chunk(<<"l", "a", " ", "l", "a", " ", "l", "a">>, "es")>>

\* C5 as stated: no chunk stays in the secondary language with at most one
\* space and no exemption; two secondary words without exemption end up as one
\* primary chunk.
C5_TwoWordsReclassified ==
    pc = "seg_done" =>
        /\ \A k \in 1..Len(chunks) :
            chunks[k].lang = "en-us" =>
                (Count(chunks[k].word, " ") > 1 \/ LooksEnglish(chunks[k].word))
        /\ cs_dicts = <<Tagged(W_la, "en"), Tagged(W_la, "en")>> =>
            chunks = <<Chunk(<<"l", "a", " ", "l", "a">>, "es")>>

\* C5 as amended: a chunk of the secondary language with no space (one word)
\* and no exemption is reclassified to the primary language; a chunk with a
\* space is not: two secondary words without exemption stay one secondary
\* chunk.
C5_OneWordReclassified ==
    pc = "seg_done" =>
        /\ \A k \in 1..Len(chunks) :
            chunks[k].lang = "en-us" =>
                (Count(chunks[k].word, " ") >= 1 \/ LooksEnglish(chunks[k].word))
        /\ cs_dicts = <<Tagged(W_la, "en")>> => chunks = <<Chunk(W_la, "es")>>
        /\ cs_dicts = <<Tagged(W_la, "en"), Tagged(W_la, "en")>> =>
            chunks = <<Chunk(<<"l", "a", " ", "l", "a">>, "en-us")>>

\* C5 witness: two secondary words without exemption have been segmented.
C5_Witness ==
    /\ pc = "seg_done"
    /\ cs_dicts = <<Tagged(W_la, "en"), Tagged(W_la, "en")>>
    /\ chunks = <<Chunk(<<"l", "a", " ", "l", "a">>, "en-us")>>

\* C6 as stated: an empty word sequence gives an empty chunk sequence and the
\* segmentation does not fail.
C6_EmptyGivesEmpty ==
    cs_dicts = <<>> =>
        /\ pc # "UnboundLocalError"
        /\ pc = "seg_done" => chunks = <<>>

\* C7 as stated: no chunk starts with a wordpiece, an apostrophe fragment or
\* the possessive s.
C7_FragmentNeverFirst ==
    pc \in {"post_loop", "seg_done"} =>
        \A k \in 1..Len(chunks) : ~IsFragment(FirstWord(chunks[k].word))

\* C7 as amended: a fragment that is not the first word of the utterance is
\* never the first word of a chunk, whatever its tag; only the first chunk can
\* start with a fragment, and only when the first word of the utterance is one.
C7_FragmentFirstOnlyAtStart ==
    pc \in {"post_loop", "seg_done"} =>
        \A k \in 1..Len(chunks) :
            IsFragment(FirstWord(chunks[k].word)) =>
                (k = 1 /\ IsFragment(cs_dicts[1].word))

\* C7 witness: a wordpiece tagged with the other language has been put into
\* the chunk of the word before it.
C7_Witness ==
    /\ pc = "seg_done"
    /\ cs_dicts = <<Tagged(W_la, "spa"), Tagged(W_piece, "en"), Tagged(W_Bath, "en")>>
    /\ chunks = <<Chunk(<<"l", "a", "s">>, "es"), Chunk(W_Bath, "en-us")>>

(***************************************************************************)
(* postprocess_codeswitch, lines 99-129, called on its own: every sequence *)
(* of chunks of the two languages, runs of one language included.          *)
(***************************************************************************)
MaxPostChunks == 3  \* the longest chunk sequence given to postprocess_codeswitch

\* the texts of the chunks: one word, or two words of which none is a fragment
ChunkTexts == Words \cup {JoinWithSpace(a, b) : a \in {W_la, W_Bath}, b \in {W_la, W_Bath}}

\* the chunks of lines 173 and 176: each a dict of its own
ChunkInputs == [word : ChunkTexts, lang : {"es", "en-us"}]

\* lines 100-101
InitPost ==
    /\ pc = "post_loop"
    /\ chunks \in {<<>>} \cup SeqsUpTo(ChunkInputs, MaxPostChunks)
    /\ cleaned_chunks = [k \in 1..Len(chunks) |-> None]
    /\ ptr = 0
    /\ i = 0
    /\ cs_dicts = <<>>
    /\ current_chunk = <<>>
    /\ current_lang = ""
    /\ AlignIdle
    /\ ConvIdle

NextPost == PostChunk \/ PostReturn

SpecPost == InitPost /\ [][NextPost]_vars

\* the slots of cleaned_chunks that hold a chunk
Filled == {k \in 1..Len(cleaned_chunks) : cleaned_chunks[k] # None}

\* no two neighbours of a chunk sequence have the same language
Alternates(cs) == \A k \in 1..(Len(cs) - 1) : cs[k].lang # cs[k + 1].lang

\* C11: after the reclassification of short chunks and the re-merge at the
\* cursor, no two adjacent chunks of the result have the same language, and
\* the cursor never moves past the last slot of cleaned_chunks: the write at
\* the cursor never fails, the slots up to the cursor are the filled ones, and
\* the cursor has moved less often than chunks were read.
C11_NoAdjacentSameLang ==
    /\ pc # "IndexError"
    /\ pc = "post_loop" =>
        /\ Len(cleaned_chunks) = Len(chunks)
        /\ ptr <= i
        /\ i > 0 => (ptr < i /\ ptr + 1 <= Len(cleaned_chunks))
        /\ Filled = (IF i = 0 THEN {} ELSE 1..(ptr + 1))
        /\ \A k \in 1..ptr : cleaned_chunks[k].lang # cleaned_chunks[k + 1].lang
    /\ pc = "seg_done" =>
        /\ Alternates(chunks)
        /\ Len(chunks) = (IF i = 0 THEN 0 ELSE ptr + 1)
        /\ \A k \in 1..Len(chunks) : chunks[k].lang \in {"es", "en-us"}

\* C11 witness: the middle chunk of three was reclassified, and all three were
\* merged into the slot at the cursor, which did not move.
C11_Witness ==
    /\ pc = "post_loop"
    /\ i = 3
    /\ chunks = <<Chunk(W_la, "es"), Chunk(W_la, "en-us"), Chunk(W_la, "es")>>
    /\ cleaned_chunks = <<Chunk(<<"l", "a", " ", "l", "a", " ", "l", "a">>, "es"), None, None>>
    /\ ptr = 0

(***************************************************************************)
(* string_to_tensor, lines 179-256: from the phonemizer's output to the    *)
(* phonetic string and its ids.  The phonemizer is outside the repository: *)
(* what it returns for the utterance, or for each chunk, is an input.      *)
(***************************************************************************)
MaxPhones == 3      \* the longest output of the phonemizer for an utterance
MaxChunkPhones == 2 \* the longest output of the phonemizer for a chunk
MaxChunks == 2      \* the most chunks of an utterance
MaxTokens == 2      \* the most tokens of an aligner output

\* a chain of str.replace: rules is a sequence of <<old, new>>
RECURSIVE ReplaceEach(_, _)
ReplaceEach(s, rules) ==
    IF rules = <<>> THEN s
    ELSE ReplaceEach(Replace(s, Head(rules)[1], Head(rules)[2]), Tail(rules))

\* re.sub of one character that no character of prevs precedes: (?<!...)c
SubUnlessAfter(s, c, new, prevs) ==
    [k \in 1..Len(s) |->
        IF s[k] = c /\ (k = 1 \/ s[k - 1] \notin prevs) THEN new ELSE s[k]]

\* lines 72-85
map_phones(ph) ==
    LET p1 == ReplaceEach(ph, <<
            <<<<"U+0254", "U+026A">>, <<"o", "U+026A">>>>,
            <<<<"o", "U+028A">>, <<"o">>>>,
            <<<<"U+025A", "U+0279">>, <<"e", "U+027E">>>>,
            <<<<"U+025A">>, <<"e", "U+027E">>>>,
            <<<<"U+025C">>, <<"U+025B", "U+027E">>>>,
            <<<<"d", "U+0292">>, <<"t", "U+0283">>>>,
            <<<<"U+1D7B">>, <<"i">>>>,
            <<<<"U+00E6">>, <<"a">>>>,
            <<<<"U+0254">>, <<"o">>>>,
            <<<<"U+0251">>, <<"o">>>>,
            <<<<"U+0250">>, <<"a">>>>,
            <<<<"U+0259">>, <<"e">>>>,
            <<<<"U+028C">>, <<"a">>>> >>)
        p2 == SubUnlessAfter(p1, "U+026A", "i", {"a", "o", "e"})
        p3 == SubUnlessAfter(p2, "U+028A", "u", {"a"})
        p4 == SubUnlessAfter(p3, "U+027E", "t", {"e", "U+025B"})
    IN  ReplaceEach(p4, <<
            <<<<"g">>, <<"U+0263">>>>,
            <<<<"v">>, <<"U+03B2">>>>,
            <<<<"z">>, <<"s">>>>,
            <<<<"h">>, <<"x">>>>,
            <<<<"U+0279">>, <<"U+027E">>>>,
            <<<<"U+0292">>, <<"U+0283">>>> >>)

\* lines 193-195 and 216-218: the punctuation becomes the pause marker
FoldPunctuation(ph) ==
    ReplaceEach(ph, <<
        <<<<";">>, <<",">>>>,
        <<<<":">>, <<",">>>>,
        <<<<"U+0022">>, <<",">>>>,
        <<<<"-">>, <<",">>>>,
        <<<<"-">>, <<",">>>>,
        <<<<"U+000A">>, <<" ">>>>,
        <<<<"U+0009">>, <<" ">>>>,
        <<<<"/">>, <<" ">>>>,
        <<<<"U+00A1">>, <<>>>>,
        <<<<"U+00BF">>, <<>>>>,
        <<<<",">>, <<"~">>>> >>)

\* re.sub("~+", "~", phones), and re.sub(r"\s+", " ", phones)
RECURSIVE CollapseRuns(_, _)
CollapseRuns(s, c) ==
    IF Len(s) < 2 THEN s
    ELSE IF s[1] = c /\ s[2] = c THEN CollapseRuns(Tail(s), c)
    ELSE <<Head(s)>> \o CollapseRuns(Tail(s), c)

\* str.lstrip(c) and str.rstrip(c)
RECURSIVE LStrip(_, _)
LStrip(s, c) == IF s # <<>> /\ Head(s) = c THEN LStrip(Tail(s), c) ELSE s
RStrip(s, c) == Reverse(LStrip(Reverse(s), c))

\* len(phones_chunk.split())
RECURSIVE WordCount(_)
WordCount(s) ==
    IF s = <<>> THEN 0
    ELSE IF Head(s) = " " THEN WordCount(Tail(s))
    ELSE IF Len(s) = 1 \/ s[2] = " " THEN 1 + WordCount(Tail(s))
    ELSE WordCount(Tail(s))

\* lines 186-202: the phones of one chunk
PhonesOfChunk(out, lang) ==
    LET folded == FoldPunctuation(out)
        mapped == IF lang = "en-us" THEN map_phones(folded) ELSE folded
    IN  IF WordCount(mapped) > 4 THEN <<"~">> \o mapped \o <<"~">> ELSE mapped

\* ' '.join(phones_chunks)
RECURSIVE JoinChunks(_)
JoinChunks(cs) ==
    IF cs = <<>> THEN <<>>
    ELSE IF Len(cs) = 1 THEN cs[1]
    ELSE cs[1] \o <<" ">> \o JoinChunks(Tail(cs))

\* lines 204-206
JoinedPhones(cs) ==
    CollapseRuns(
        LStrip(ReplaceEach(JoinChunks(cs), <<
            <<<<" ", "~">>, <<"~">>>>,
            <<<<" ", ".">>, <<".">>>>,
            <<<<" ", "!">>, <<"!">>>>,
            <<<<" ", "?">>, <<"?">>>> >>), " "),
        "~")

\* lines 221-235
FinalPhones(ph, prosody, boundaries) ==
    LET p1 == IF ~prosody
              THEN ReplaceEach(ph, <<
                    <<<<"U+02CC">>, <<>>>>, <<<<"U+02D0">>, <<>>>>,
                    <<<<"U+02D1">>, <<>>>>, <<<<"U+02D8">>, <<>>>>,
                    <<<<"|">>, <<>>>>, <<<<"U+2016">>, <<>>>> >>)
              ELSE ph
        p2 == IF ~boundaries THEN Replace(p1, <<" ">>, <<>>) ELSE CollapseRuns(p1, " ")
    IN  Replace(<<"+">> \o p2, <<"U+0254">>, <<"o">>) \o <<"~">>

\* self.ipa_to_vector: the lines of ipa_list.txt that the model uses, with
\* the ids the comments of lines 48-51 give and ids of their own for the rest
KnownSymbols == {"end_of_input", "+", "~", "a", "o", " "}
ipa_to_vector ==
    [sym \in KnownSymbols |->
        CASE sym = "end_of_input" -> 1
          [] sym = "+" -> 2
          [] sym = "~" -> 13
          [] sym = "a" -> 14
          [] sym = "o" -> 15
          [] sym = " " -> 16]

\* line 39
default_vector == 165

\* lines 243-248: the ids of a phonetic string in string_to_tensor
RECURSIVE EncodeWithPolicy(_, _)
EncodeWithPolicy(ph, unknown_allowed) ==
    IF ph = <<>> THEN <<>>
    ELSE (IF unknown_allowed
          THEN <<IF Head(ph) \in KnownSymbols THEN ipa_to_vector[Head(ph)] ELSE default_vector>>
          ELSE IF Head(ph) \in KnownSymbols THEN <<ipa_to_vector[Head(ph)]>> ELSE <<>>)
         \o EncodeWithPolicy(Tail(ph), unknown_allowed)

\* lines 266-270 and 288-292: the ids of a phonetic string of the aligner; the
\* lookup ipa_to_vector[char] raises KeyError for an unknown symbol whatever
\* allow_unknown is (the defaultdict of line 38 has no default_factory), and
\* the symbol is reported and skipped
RECURSIVE EncodeOrSkip(_)
EncodeOrSkip(ph) ==
    IF ph = <<>> THEN <<>>
    ELSE (IF Head(ph) \in KnownSymbols THEN <<ipa_to_vector[Head(ph)]>> ELSE <<>>)
         \o EncodeOrSkip(Tail(ph))

\* what the phonemizer returns for an utterance or a chunk with a word in it:
\* strip=True leaves no space at either end
PhoneChars == {"a", ",", " ", "U+02D0", "U+0254"}
LongOutput == <<"a", " ", "a", " ", "a", " ", "a", " ", "a">>
G2POutputs(n) ==
    {s \in SeqsUpTo(PhoneChars, n) :
        /\ s[1] # " " /\ s[Len(s)] # " "
        /\ \E k \in 1..Len(s) : s[k] \in {"a", "U+0254"}} \cup {LongOutput}

ConfigInit ==
    /\ use_prosody \in BOOLEAN
    /\ use_word_boundaries \in BOOLEAN
    /\ use_explicit_eos \in BOOLEAN
    /\ allow_unknown \in BOOLEAN

\* string_to_tensor after the segmentation: g2p_out[k] is the output of the
\* phonemizer for chunk k and the language of that chunk; without code
\* switching it is the output for the whole utterance
InitConvert ==
    /\ pc = "conv_start"
    /\ ConfigInit
    /\ use_codeswitching \in BOOLEAN
    /\ IF use_codeswitching
       THEN g2p_out \in UNION {[1..m -> [out : G2POutputs(MaxChunkPhones), lang : {"es", "en-us"}]] :
                                 m \in 1..MaxChunks}
       ELSE g2p_out \in [1..1 -> [out : G2POutputs(MaxPhones), lang : {"es"}]]
    /\ \A k \in 1..(Len(g2p_out) - 1) : g2p_out[k].lang # g2p_out[k + 1].lang
    /\ phones_chunks = <<>>
    /\ aligned = <<>>
    /\ phones = <<>>
    /\ phones_vector = <<>>
    /\ i = 0
    /\ AlignIdle
    /\ SegIdle

\* lines 181-202: one iteration of the loop over the chunks
ConvChunk ==
    /\ pc = "conv_start"
    /\ use_codeswitching
    /\ i < Len(g2p_out)
    /\ phones_chunks' = Append(phones_chunks, PhonesOfChunk(g2p_out[i + 1].out, g2p_out[i + 1].lang))
    /\ i' = i + 1
    /\ UNCHANGED <<pc, config, g2p_out, aligned, phones, phones_vector, alignVars, segVars>>

\* lines 204-206
ConvJoin ==
    /\ pc = "conv_start"
    /\ use_codeswitching
    /\ i = Len(g2p_out)
    /\ phones' = JoinedPhones(phones_chunks)
    /\ pc' = "conv_finish"
    /\ UNCHANGED <<i, config, g2p_out, phones_chunks, aligned, phones_vector, alignVars, segVars>>

\* lines 209-219
ConvPlain ==
    /\ pc = "conv_start"
    /\ ~use_codeswitching
    /\ phones' = CollapseRuns(FoldPunctuation(g2p_out[1].out), "~")
    /\ pc' = "conv_finish"
    /\ UNCHANGED <<i, config, g2p_out, phones_chunks, aligned, phones_vector, alignVars, segVars>>

\* lines 221-235
ConvFinish ==
    /\ pc = "conv_finish"
    /\ phones' = FinalPhones(phones, use_prosody, use_word_boundaries)
    /\ pc' = "st_encode"
    /\ UNCHANGED <<i, config, g2p_out, phones_chunks, aligned, phones_vector, alignVars, segVars>>

\* lines 241-256
EncodeString ==
    /\ pc = "st_encode"
    /\ phones_vector' =
        EncodeWithPolicy(phones, allow_unknown)
        \o (IF use_explicit_eos THEN <<ipa_to_vector["end_of_input"]>> ELSE <<>>)
    /\ pc' = "st_done"
    /\ UNCHANGED <<i, config, g2p_out, phones_chunks, aligned, phones, alignVars, segVars>>

NextConvert == ConvChunk \/ ConvJoin \/ ConvPlain \/ ConvFinish \/ EncodeString

SpecConvert == InitConvert /\ [][NextConvert]_vars

(***************************************************************************)
(* phones_to_tensor, lines 258-271, and phones_and_dur_to_tensor, lines    *)
(* 273-292: the ids of an output of the aligner.                           *)
(***************************************************************************)
\* str.split(sep) for a separator of one character
RECURSIVE SplitOn(_, _)
SplitOn(s, sep) ==
    IF \A k \in 1..Len(s) : s[k] # sep THEN <<s>>
    ELSE LET at == CHOOSE k \in 1..Len(s) : s[k] = sep /\ \A j \in 1..(k - 1) : s[j] # sep
         IN  <<SubSeq(s, 1, at - 1)>> \o SplitOn(SubSeq(s, at + 1, Len(s)), sep)

\* the concatenation of the strings of a sequence
RECURSIVE Concat(_)
Concat(ss) == IF ss = <<>> THEN <<>> ELSE Head(ss) \o Concat(Tail(ss))

\* lines 259-264: the symbols of "phone_duration" tokens
PhonesOfAligned(al) ==
    LET replaced == Replace(al, <<"_", "p", ":", "_">>, <<"~">>)
        tokens == SplitOn(replaced, " ")
        symbols == Concat([k \in 1..Len(tokens) |-> SplitOn(tokens[k], "_")[1]])
    IN  <<"+">> \o LStrip(RStrip(symbols, "~"), "~")

\* the duration "0.0001" of the pause tokens of lines 276 and 278, in units of
\* a duration of 0.0001
PadDur == 1
PadToken == [phone |-> <<"~">>, dur |-> PadDur]

\* lines 274-279: the tokens, between pauses.  The argument is taken as its
\* tokens "phone_duration", a pause "_p:_" as the phone "~".
PaddedTokens(al) ==
    LET front == IF al[1].phone[1] # "~" THEN <<PadToken>> \o al ELSE al
    IN  IF front[Len(front)].phone[1] # "~" THEN front \o <<PadToken>> ELSE front

\* lines 280-286
PhonesOfTokens(toks) ==
    <<"+">> \o LStrip(RStrip(Concat([k \in 1..Len(toks) |-> toks[k].phone]), "~"), "~")

\* the outputs of the aligner
AlignChars == {"a", "x", "_", " ", "~", "1"}
PauseSample == <<"_", "p", ":", "_", "_", "1", " ", "x", "_", "1">>
AlignedStrings == SeqsUpTo(AlignChars, MaxPhones) \cup {PauseSample}
AlignedTokens ==
    SeqsUpTo([phone : {<<"a">>, <<"x">>, <<"~">>}, dur : 1..MaxDur], MaxTokens)

InitPhones ==
    /\ pc = "pt_start"
    /\ ConfigInit
    /\ use_codeswitching = FALSE
    /\ aligned \in AlignedStrings
    /\ g2p_out = <<>>
    /\ phones_chunks = <<>>
    /\ phones = <<>>
    /\ phones_vector = <<>>
    /\ i = 0
    /\ AlignIdle
    /\ SegIdle

InitPhonesAndDur ==
    /\ pc = "pd_start"
    /\ ConfigInit
    /\ use_codeswitching = FALSE
    /\ aligned \in AlignedTokens
    /\ melLen \in 0..MaxFrames
    /\ g2p_out = <<>>
    /\ phones_chunks = <<>>
    /\ phones = <<>>
    /\ phones_vector = <<>>
    /\ i = 0
    /\ durs = <<>>
    /\ frames = <<>>
    /\ rounded = <<>>
    /\ diff = 0
    /\ sorted_frames = <<>>
    /\ SegIdle

\* lines 259-271
PhonesToTensor ==
    /\ pc = "pt_start"
    /\ phones' = PhonesOfAligned(aligned)
    /\ phones_vector' = EncodeOrSkip(phones')
    /\ pc' = "pt_done"
    /\ UNCHANGED <<i, config, g2p_out, phones_chunks, aligned, alignVars, segVars>>

\* lines 274-292; the call goes on with line 294
PhonesAndDur ==
    /\ pc = "pd_start"
    /\ LET toks == PaddedTokens(aligned)
       IN  /\ durs' = [k \in 1..Len(toks) |-> toks[k].dur]
           /\ phones' = PhonesOfTokens(toks)
    /\ phones_vector' = EncodeOrSkip(phones')
    /\ pc' = "align_round"
    /\ UNCHANGED <<i, config, g2p_out, phones_chunks, aligned, melLen, frames, rounded,
                   diff, sorted_frames, segVars>>

NextEncode == NextConvert \/ PhonesToTensor \/ PhonesAndDur \/ NextAlign

\* the three encoding operations
SpecEncode == (InitConvert \/ InitPhones \/ InitPhonesAndDur) /\ [][NextEncode]_vars

(***************************************************************************)
(* The frontend: every call of string_to_tensor, phones_to_tensor and      *)
(* phones_and_dur_to_tensor.                                               *)
(***************************************************************************)
Init == InitAlign \/ InitSegment \/ InitPost \/ InitConvert \/ InitPhones \/ InitPhonesAndDur
Next == NextAlign \/ NextSegment \/ NextConvert \/ PhonesToTensor \/ PhonesAndDur
Spec == Init /\ [][Next]_vars

(***************************************************************************)
(* Properties of the phonetic string and of its encoding.                  *)
(***************************************************************************)
\* C8 as stated: the phonetic string that string_to_tensor returns never has
\* two adjacent pause markers.
C8_NoAdjacentPauses ==
    pc \in {"st_encode", "st_done"} =>
        \A k \in 1..(Len(phones) - 1) : ~(phones[k] = "~" /\ phones[k + 1] = "~")

\* the symbols of a phonetic string that the table does not have
Unknown(ph) == {k \in 1..Len(ph) : ph[k] \notin KnownSymbols}

\* C9 as stated: every encoding operation applies the policy of the table:
\* with allow_unknown there is one id per symbol of the phonetic string, the
\* sentinel for each unknown symbol; without it the unknown symbols are
\* dropped.
C9_PolicyAppliedEverywhere ==
    pc \in {"st_done", "pt_done", "align_round", "align_done"} =>
        LET eos == IF pc = "st_done" /\ use_explicit_eos THEN 1 ELSE 0
        IN  IF allow_unknown
            THEN /\ Len(phones_vector) = Len(phones) + eos
                 /\ \A k \in Unknown(phones) : phones_vector[k] = default_vector
            ELSE Len(phones_vector) = Len(phones) - Cardinality(Unknown(phones)) + eos

====
